---------------------------- MODULE Spec2Model ----------------------------
(***************************************************************************)
(* A model of the semantic-mail core:                                      *)
(*   - EmailSearcher.search            (src/src/search/searcher.py)        *)
(*   - OllamaEmbedder.generate_embeddings_batch                            *)
(*                                     (src/src/embedding/ollama_embedder.py) *)
(*   - FastMbox._generate_toc and MboxSyncer._get_body                     *)
(*                                     (src/src/sync/mbox_sync.py)         *)
(* Each of the four operations has its own specification over the shared   *)
(* variables; the variables of the other operations stay idle.             *)
(***************************************************************************)
EXTENDS Integers, Sequences, FiniteSets, TLC

VARIABLES
    \* ---- EmailSearcher.search
    index,          \* the vector store's entries, nearest first
    unresolved,     \* raw ids for which get_email_by_id returns nothing
    n_results,      \* argument of search
    pc,             \* position of the call
    total_count,    \* searcher.py:32
    fetch_count,    \* searcher.py:33, :53
    accumulated,    \* searcher.py:34, :42
    results,        \* the returned list
    report,         \* what the call printed about its outcome
    storeFailed,    \* history: a vector-store query failed during the call
    queries,        \* history: number of vector-store queries issued
    \* ---- OllamaEmbedder.generate_embeddings_batch
    texts,          \* the argument, texts[0] .. texts[N-1]
    clients,        \* len(self.clients)
    submitted,      \* number of executor.submit calls made so far
    workQueue,      \* the executor's queue of submitted tasks not yet started
    running,        \* tasks a worker thread is executing (request in flight)
    sentOn,         \* history: the connection each started task was sent on
    future,         \* task -> the result of its finished future
    failed,         \* history: tasks whose backend call failed
    collected,      \* futures as_completed has already yielded
    embeddings,     \* ollama_embedder.py:97, :111
    bpc,            \* position of the call
    \* ---- FastMbox._generate_toc
    file,           \* the bytes of the mbox file
    starts,         \* mbox_sync.py:24
    stops,          \* mbox_sync.py:24
    last,           \* mbox_sync.py:24, :30
    scanFrom,       \* offset at which finditer resumes
    bar,            \* bytes reported to the progress bar
    toc,            \* self._toc, key i being toc[i + 1]
    next_key,       \* self._next_key
    file_length,    \* self._file_length
    tpc,            \* position of the call
    \* ---- MboxSyncer._get_body
    walk,           \* msg.walk() of the message, the message itself first
    walkAt,         \* number of parts the loop has visited
    textParts,      \* the list "parts" of _get_body
    body,           \* the returned text
    gpc             \* position of the call

searchVars == << index, unresolved, n_results, pc, total_count, fetch_count,
                 accumulated, results, report, storeFailed, queries >>

batchVars == << texts, clients, submitted, workQueue, running, sentOn, future,
                failed, collected, embeddings, bpc >>

tocVars == << file, starts, stops, last, scanFrom, bar, toc, next_key,
              file_length, tpc >>

bodyVars == << walk, walkAt, textParts, body, gpc >>

vars == << searchVars, batchVars, tocVars, bodyVars >>

\* the state of a call before its first step
CallStart ==
    /\ pc = "start"
    /\ total_count = 0
    /\ fetch_count = 0
    /\ accumulated = << >>
    /\ results = << >>
    /\ report = "none"
    /\ storeFailed = FALSE
    /\ queries = 0

\* no search is running
SearchIdle ==
    /\ index = << >>
    /\ unresolved = {}
    /\ n_results = 0
    /\ CallStart

\* no boundary scan is running
TocIdle ==
    /\ file = << >>
    /\ starts = << >>
    /\ stops = << >>
    /\ last = 0
    /\ scanFrom = 0
    /\ bar = 0
    /\ toc = << >>
    /\ next_key = 0
    /\ file_length = 0
    /\ tpc = "idle"

\* no body extraction is running
BodyIdle ==
    /\ walk = << >>
    /\ walkAt = 0
    /\ textParts = << >>
    /\ body = << >>
    /\ gpc = "idle"

\* no batch is running
BatchIdle ==
    /\ texts = << >>
    /\ clients = 1
    /\ submitted = 0
    /\ workQueue = << >>
    /\ running = {}
    /\ sentOn = << >>
    /\ future = << >>
    /\ failed = {}
    /\ collected = {}
    /\ embeddings = << >>
    /\ bpc = "idle"

Min(a, b) == IF a <= b THEN a ELSE b
Max(a, b) == IF a >= b THEN a ELSE b

-----------------------------------------------------------------------------
(* Bounds of the model *)

MaxEntries == 5
MaxN == 2
MaxTexts == 4
MaxClients == 2
MaxChunks == 6
MaxParts == 3

(* The texts a batch is drawn from.                                        *)
TextIds == {1, 2}

(* Distances and message ids the store's entries are drawn from.  Raw ids  *)
(* are the positions 1..Len(index); message id 1 coincides with raw id 1.  *)
Dists == {0, 1, 2}
MessageIds == {1, 9}

-----------------------------------------------------------------------------
(* EmailSearcher.search *)

\* metadata.get("message_id", email_id): metadata holds message_id or not
DedupKey(hit) == IF hit.mid = << >> THEN hit.id ELSE hit.mid[1]

\* "distance < dedup[message_id][1]"
CloserFlipped(distance, kept) == distance > kept
Closer(distance, kept) == distance < kept

\* index of the entry of dedup (a dict in insertion order) holding key, or 0
SlotOfKey(dedup, key) ==
    IF \E i \in 1..Len(dedup) : DedupKey(dedup[i]) = key
    THEN CHOOSE i \in 1..Len(dedup) : DedupKey(dedup[i]) = key
    ELSE 0

\* one iteration of "for email_id, distance, metadata in accumulated"
DedupPut(dedup, hit) ==
    LET i == SlotOfKey(dedup, DedupKey(hit)) IN
    IF i = 0 THEN Append(dedup, hit)
    ELSE IF Closer(hit.dist, dedup[i].dist) THEN [dedup EXCEPT ![i] = hit]
    ELSE dedup

RECURSIVE DedupFrom(_, _)
DedupFrom(dedup, hits) ==
    IF hits = << >> THEN dedup
    ELSE DedupFrom(DedupPut(dedup, Head(hits)), Tail(hits))

\* the dict built at searcher.py:44-48 and :59-63, as its values() in order
Dedup(hits) == DedupFrom(<< >>, hits)

\* insertion of x after every element whose distance is not larger (stable)
RECURSIVE InsertByDistance(_, _)
InsertByDistance(sorted, x) ==
    IF sorted = << >> THEN << x >>
    ELSE IF Head(sorted).dist <= x.dist
         THEN << Head(sorted) >> \o InsertByDistance(Tail(sorted), x)
         ELSE << x >> \o sorted

RECURSIVE SortFrom(_, _)
SortFrom(sorted, rest) ==
    IF rest = << >> THEN sorted
    ELSE SortFrom(InsertByDistance(sorted, Head(rest)), Tail(rest))

\* sorted(dedup.values(), key=lambda x: x[1])
SortedByDistance(hits) == SortFrom(<< >>, hits)

\* Python's s[:n], n negative included
NoTruncate(s, n) == s
Truncate(s, n) ==
    IF n >= 0 THEN SubSeq(s, 1, Min(n, Len(s)))
    ELSE SubSeq(s, 1, Max(Len(s) + n, 0))

\* score = 1.0 - distance
Score(distance) == 1 - distance

\* the loop at searcher.py:67-90: hits whose id does not resolve are dropped
RECURSIVE Materialize(_, _)
Materialize(hits, missing) ==
    IF hits = << >> THEN << >>
    ELSE LET h == Head(hits) IN
         (IF h.id \in missing THEN << >>
          ELSE << [id |-> h.id, message_id |-> DedupKey(h),
                   score |-> Score(h.dist), distance |-> h.dist] >>)
         \o Materialize(Tail(hits), missing)

\* searcher.py:59-92
FinalResults(acc, n, missing) ==
    Materialize(Truncate(SortedByDistance(Dedup(acc)), n), missing)

\* the vector store's query(vector, k): the k nearest entries, nearest first
StoreQuery(k) == SubSeq(index, 1, Min(Max(k, 0), Len(index)))

\* collection.count()
StoreCount == Len(index)

\* searcher.py:33
InitialFetchCount(n, total) == Min(n * 2, total)

\* searcher.py:53
NoGrowth(fetch, total) == fetch
NextFetchCount(fetch, total) == Min(fetch * 2, total)

\* searcher.py:50
StopAlways(distinct, n, fetch, total) == TRUE
StopCondition(distinct, n, fetch, total) == distinct >= n \/ fetch >= total

\* the contents a store can hold: raw ids 1..k, entries nearest first
MetadataIds == { << >> } \cup { << m >> : m \in MessageIds }

SortedDistances(k) ==
    { ds \in [1..k -> Dists] : \A i \in 1..(k - 1) : ds[i] <= ds[i + 1] }

MakeIndex(k, mids, ds) == [i \in 1..k |-> [id |-> i, mid |-> mids[i], dist |-> ds[i]]]

InitSearch ==
    /\ \E k \in 0..MaxEntries : \E mids \in [1..k -> MetadataIds] :
         \E ds \in SortedDistances(k) : index = MakeIndex(k, mids, ds)
    /\ unresolved \in { {} } \cup { {i} : i \in 1..Min(1, Len(index)) }
    /\ n_results \in (-1)..MaxN
    /\ CallStart
    /\ BatchIdle /\ TocIdle /\ BodyIdle

\* searcher.py:26-34, the query embedding succeeded
EmbedQuery ==
    /\ pc = "start"
    /\ total_count' = StoreCount
    /\ fetch_count' = InitialFetchCount(n_results, StoreCount)
    /\ pc' = "loop"
    /\ UNCHANGED << index, unresolved, n_results, accumulated, results, report,
                    storeFailed, queries >>
    /\ UNCHANGED << batchVars, tocVars, bodyVars >>

\* searcher.py:28-30, generate_embedding returned None
EmbedQueryFails ==
    /\ pc = "start"
    /\ report' = "Failed to generate query embedding"
    /\ results' = << >>
    /\ pc' = "done"
    /\ UNCHANGED << index, unresolved, n_results, total_count, fetch_count,
                    accumulated, storeFailed, queries >>
    /\ UNCHANGED << batchVars, tocVars, bodyVars >>

\* searcher.py:37-53, one iteration of the fetch loop
FetchStep ==
    /\ pc = "loop"
    /\ queries' = queries + 1
    /\ LET search_results == StoreQuery(fetch_count) IN
       IF search_results = << >>
       THEN /\ pc' = "collect"
            /\ UNCHANGED << accumulated, fetch_count >>
       ELSE /\ accumulated' = accumulated \o search_results
            /\ IF StopCondition(Len(Dedup(accumulated')), n_results,
                                fetch_count, total_count)
               THEN /\ pc' = "collect"
                    /\ UNCHANGED fetch_count
               ELSE /\ pc' = "loop"
                    /\ fetch_count' = NextFetchCount(fetch_count, total_count)
    /\ UNCHANGED << index, unresolved, n_results, total_count, results, report,
                    storeFailed >>
    /\ UNCHANGED << batchVars, tocVars, bodyVars >>

\* the store is unreachable and its query yields nothing: searcher.py:39-40
FetchYieldsNothing ==
    /\ pc = "loop"
    /\ queries' = queries + 1
    /\ storeFailed' = TRUE
    /\ pc' = "collect"
    /\ UNCHANGED << index, unresolved, n_results, total_count, fetch_count,
                    accumulated, results, report >>
    /\ UNCHANGED << batchVars, tocVars, bodyVars >>

\* the store is unreachable and its query raises: nothing in search catches it
FetchRaises ==
    /\ pc = "loop"
    /\ queries' = queries + 1
    /\ storeFailed' = TRUE
    /\ pc' = "raised"
    /\ UNCHANGED << index, unresolved, n_results, total_count, fetch_count,
                    accumulated, results, report >>
    /\ UNCHANGED << batchVars, tocVars, bodyVars >>

\* searcher.py:55-92
Collect ==
    /\ pc = "collect"
    /\ IF accumulated = << >>
       THEN /\ report' = "No results found"
            /\ results' = << >>
       ELSE /\ results' = FinalResults(accumulated, n_results, unresolved)
            /\ UNCHANGED report
    /\ pc' = "done"
    /\ UNCHANGED << index, unresolved, n_results, total_count, fetch_count,
                    accumulated, storeFailed, queries >>
    /\ UNCHANGED << batchVars, tocVars, bodyVars >>

NextSearch ==
    \/ EmbedQuery
    \/ EmbedQueryFails
    \/ FetchStep
    \/ FetchYieldsNothing
    \/ FetchRaises
    \/ Collect

Spec == InitSearch /\ [][NextSearch]_vars

-----------------------------------------------------------------------------
(* Claims about EmailSearcher.search *)

EmbeddingFailed == report = "Failed to generate query embedding"
Returned == pc = "done"
Finished == pc \in {"done", "raised"}

KeysOf(hits) == { DedupKey(hits[i]) : i \in 1..Len(hits) }
DistancesOf(hits, key) ==
    { hits[i].dist : i \in { j \in 1..Len(hits) : DedupKey(hits[j]) = key } }
MinDistance(hits, key) ==
    CHOOSE d \in DistancesOf(hits, key) : \A e \in DistancesOf(hits, key) : d <= e

NoRepeatedKey(res) ==
    \A i, j \in 1..Len(res) : i # j => res[i].message_id # res[j].message_id
AscendingDistance(res) ==
    \A i \in 1..(Len(res) - 1) :
        /\ res[i].distance <= res[i + 1].distance
        /\ res[i].score >= res[i + 1].score

\* C1: when the query embedding succeeded, no two returned results share a
\* DedupKey and each carries the minimum distance among the raw hits fetched
\* during the call that share its DedupKey.
C1_DedupKeepsMinimum ==
    (Returned /\ ~EmbeddingFailed) =>
        /\ NoRepeatedKey(results)
        /\ \A i \in 1..Len(results) :
              /\ results[i].message_id \in KeysOf(accumulated)
              /\ results[i].distance = MinDistance(accumulated, results[i].message_id)

\* a returned result whose key was fetched several times at different distances
C1_Witness ==
    /\ Returned /\ ~EmbeddingFailed
    /\ Len(results) >= 2
    /\ \E i \in 1..Len(results) :
          Cardinality(DistancesOf(accumulated, results[i].message_id)) >= 2

\* the premises of C2: the store answered every query, every id resolves, and
\* the index holds at least n_results >= 1 distinct DedupKeys
C2_Premises ==
    /\ Returned /\ ~storeFailed
    /\ unresolved = {}
    /\ n_results >= 1
    /\ Cardinality(KeysOf(index)) >= n_results

\* the results are n_results distinct messages, each at its minimum distance
\* over the whole index, and no message left out is nearer than one returned
C2_TopDistinct ==
    /\ Len(results) = n_results
    /\ NoRepeatedKey(results)
    /\ \A i \in 1..Len(results) :
          /\ results[i].message_id \in KeysOf(index)
          /\ results[i].distance = MinDistance(index, results[i].message_id)
    /\ \A key \in KeysOf(index) :
          key \notin { results[i].message_id : i \in 1..Len(results) } =>
              \A i \in 1..Len(results) : results[i].distance <= MinDistance(index, key)

\* C2 as stated: under its premises search returns exactly the n_results
\* nearest distinct messages.
C2_AsStated == C2_Premises => C2_TopDistinct

\* C2 as amended: the same, for calls whose query embedding succeeded.
C2_NearestDistinct == (C2_Premises /\ ~EmbeddingFailed) => C2_TopDistinct

\* the fetch count had to be doubled because of duplicate entries
C2_Witness ==
    /\ C2_Premises /\ ~EmbeddingFailed
    /\ queries >= 2
    /\ Len(results) = n_results
    /\ Len(index) > Cardinality(KeysOf(index))

\* C3 as stated: for every integer n_results the returned sequence has at most
\* n_results elements and is in non-decreasing distance (non-increasing score).
C3_AsStated == Returned => (Len(results) <= n_results /\ AscendingDistance(results))

\* C3 as amended: the same, for every n_results >= 0.
C3_BoundedSorted ==
    (Returned /\ n_results >= 0) =>
        (Len(results) <= n_results /\ AscendingDistance(results))

\* more distinct messages were fetched than asked for, and the cut kept n_results
C3_Witness ==
    /\ Returned /\ n_results >= 2
    /\ Cardinality(KeysOf(accumulated)) > n_results
    /\ Len(results) = n_results
    /\ results[1].distance < results[Len(results)].distance

\* at most max(1, total_count) store queries are issued, the fetch count never
\* passes total_count, and at most total_count results are returned
C4_Bounded ==
    /\ queries <= Max(1, StoreCount)
    /\ pc = "loop" => fetch_count <= total_count
    /\ Returned => Len(results) <= StoreCount

\* every iteration that does not stop the loop strictly raises fetch_count
LoopProgress ==
    (pc = "loop" /\ pc' = "loop") =>
        (fetch_count' > fetch_count /\ fetch_count' <= total_count)

\* C4: the fetch loop always terminates: an iteration that continues strictly
\* raises fetch_count, which never passes total_count, so that at most
\* max(1, total_count) store queries are issued whatever n_results and
\* total_count are, and the call returns at most total_count results.
C4_LoopTerminates == [][LoopProgress]_vars /\ []C4_Bounded

\* a call asking for at least as many results as the index holds, which looped
C4_Witness ==
    /\ Returned /\ ~storeFailed
    /\ total_count >= 1
    /\ n_results >= total_count
    /\ queries >= 1
    /\ results # << >>

\* what a search that ran and found no match tells its caller
NoMatchReports == { "none", "No results found" }

\* the caller is told of a failure: the call raised, or reported one
FailureIndicated == pc = "raised" \/ report \notin NoMatchReports

\* C6 as stated: when the vector store failed during the call, the caller gets
\* an empty result together with a failure indication, which a search that
\* found no match does not give.
C6_AsStated == (Finished /\ storeFailed) => (results = << >> /\ FailureIndicated)

-----------------------------------------------------------------------------
(* OllamaEmbedder.generate_embeddings_batch *)

\* an absent embedding
None == << >>

\* what the backend's embed(model, input=text) yields for a text that embeds
Vector(text) == << text, text + 1 >>

\* the outcomes of client.embed: a well-formed response, a response without
\* "embeddings", one with an empty "embeddings" list, an exception
Responses(text) ==
    { [raises |-> FALSE, hasKey |-> TRUE, embeddings |-> << Vector(text) >>],
      [raises |-> FALSE, hasKey |-> FALSE, embeddings |-> << >>],
      [raises |-> FALSE, hasKey |-> TRUE, embeddings |-> << >>],
      [raises |-> TRUE, hasKey |-> FALSE, embeddings |-> << >>] }

WellFormed(response) ==
    ~response.raises /\ response.hasKey /\ Len(response.embeddings) > 0

\* ollama_embedder.py:79-92
GenerateEmbedding(response) ==
    IF response.raises THEN None
    ELSE IF response.hasKey /\ Len(response.embeddings) > 0
         THEN response.embeddings[1]
         ELSE None

\* self.clients[i % len(self.clients)]
ClientOf(i, n) == i % n

\* ThreadPoolExecutor(max_workers=len(self.clients))
OneWorkerMore(n) == n + 1
MaxWorkers(n) == n

\* embeddings[idx], idx = future_to_index[future]; k futures were yielded before
SlotByCompletion(idx, k) == k
SlotOf(idx, k) == idx

Tasks == 0..(Len(texts) - 1)

\* ollama_embedder.py:97: embeddings = [None] * len(texts); texts are kept as
\* the sequence texts[1..N], task i of the code being texts[i + 1]
InitBatch ==
    /\ \E n \in 0..MaxTexts : texts \in [1..n -> TextIds]
    /\ clients \in 1..MaxClients
    /\ submitted = 0
    /\ workQueue = << >>
    /\ running = {}
    /\ sentOn = [i \in {} |-> 0]
    /\ future = [i \in {} |-> None]
    /\ failed = {}
    /\ collected = {}
    /\ embeddings = [i \in Tasks |-> None]
    /\ bpc = "submit"
    /\ SearchIdle /\ TocIdle /\ BodyIdle

\* ollama_embedder.py:101-108, one executor.submit of the comprehension
Submit ==
    /\ bpc = "submit"
    /\ submitted < Len(texts)
    /\ workQueue' = Append(workQueue, submitted)
    /\ submitted' = submitted + 1
    /\ UNCHANGED << texts, clients, running, sentOn, future, failed, collected,
                    embeddings, bpc >>
    /\ UNCHANGED << searchVars, tocVars, bodyVars >>

\* ollama_embedder.py:109, every task is submitted and as_completed starts
AllSubmitted ==
    /\ bpc = "submit"
    /\ submitted = Len(texts)
    /\ bpc' = "collect"
    /\ UNCHANGED << texts, clients, submitted, workQueue, running, sentOn,
                    future, failed, collected, embeddings >>
    /\ UNCHANGED << searchVars, tocVars, bodyVars >>

\* a worker thread of the pool takes the next task and sends its request
WorkerStarts ==
    /\ workQueue # << >>
    /\ Cardinality(running) < MaxWorkers(clients)
    /\ LET i == Head(workQueue) IN
          /\ running' = running \cup {i}
          /\ sentOn' = [j \in DOMAIN sentOn \cup {i} |->
                           IF j = i THEN ClientOf(i, clients) ELSE sentOn[j]]
    /\ workQueue' = Tail(workQueue)
    /\ UNCHANGED << texts, clients, submitted, future, failed, collected,
                    embeddings, bpc >>
    /\ UNCHANGED << searchVars, tocVars, bodyVars >>

\* the backend answers task i and generate_embedding returns: its future is done
WorkerFinishes(i) ==
    /\ i \in running
    /\ \E response \in Responses(texts[i + 1]) :
          /\ future' = [j \in DOMAIN future \cup {i} |->
                           IF j = i THEN GenerateEmbedding(response) ELSE future[j]]
          /\ failed' = IF WellFormed(response) THEN failed ELSE failed \cup {i}
    /\ running' = running \ {i}
    /\ UNCHANGED << texts, clients, submitted, workQueue, sentOn, collected,
                    embeddings, bpc >>
    /\ UNCHANGED << searchVars, tocVars, bodyVars >>

\* ollama_embedder.py:109-112, as_completed yields a finished future
CollectFuture(i) ==
    /\ bpc = "collect"
    /\ i \in DOMAIN future
    /\ i \notin collected
    /\ embeddings' = [embeddings EXCEPT ![SlotOf(i, Cardinality(collected))] = future[i]]
    /\ collected' = collected \cup {i}
    /\ UNCHANGED << texts, clients, submitted, workQueue, running, sentOn,
                    future, failed, bpc >>
    /\ UNCHANGED << searchVars, tocVars, bodyVars >>

\* ollama_embedder.py:114
ReturnEmbeddings ==
    /\ bpc = "collect"
    /\ collected = Tasks
    /\ bpc' = "done"
    /\ UNCHANGED << texts, clients, submitted, workQueue, running, sentOn,
                    future, failed, collected, embeddings >>
    /\ UNCHANGED << searchVars, tocVars, bodyVars >>

NextBatch ==
    \/ Submit
    \/ AllSubmitted
    \/ WorkerStarts
    \/ \E i \in Tasks : WorkerFinishes(i)
    \/ \E i \in Tasks : CollectFuture(i)
    \/ ReturnEmbeddings

SpecBatch == InitBatch /\ [][NextBatch]_vars

-----------------------------------------------------------------------------
(* Claims about generate_embeddings_batch *)

BatchReturned == bpc = "done"

\* C5: the returned list has one slot per text; slot i holds the vector of
\* texts[i] when its backend call succeeded and None when it failed, whatever
\* the interleaving and completion order of the workers.
C5_SlotsInInputOrder ==
    BatchReturned =>
        /\ DOMAIN embeddings = Tasks
        /\ \A i \in Tasks :
              embeddings[i] = IF i \in failed THEN None ELSE Vector(texts[i + 1])

\* one backend call failed, the others succeeded, with differing texts around it
C5_Witness ==
    /\ BatchReturned
    /\ Len(texts) >= 3
    /\ Cardinality(failed) = 1
    /\ 0 \notin failed
    /\ \E i, j \in Tasks \ failed : texts[i + 1] # texts[j + 1]

\* every request in flight is on connection i mod C
RoundRobin == \A i \in running : sentOn[i] = i % clients

InFlightOn(c) == { i \in running : sentOn[i] = c }

\* C10 as stated: text i is sent on connection i mod C and no connection has
\* more than one request in flight.
C10_AsStated ==
    /\ RoundRobin
    /\ \A c \in 0..(clients - 1) : Cardinality(InFlightOn(c)) <= 1

\* C10 as amended: text i is sent on connection i mod C and at most C requests
\* are in flight at any moment.
C10_BoundedInFlight ==
    /\ RoundRobin
    /\ Cardinality(running) <= clients

\* C requests in flight at once, with more than one connection
C10_Witness ==
    /\ clients >= 2
    /\ Cardinality(running) = clients
    /\ \E i \in running : i >= clients

-----------------------------------------------------------------------------
(* FastMbox._generate_toc *)

\* _pat = re.compile(br'\nFrom ')
Pattern == << "\n", "F", "r", "o", "m", " " >>

\* the pieces files are built from: a "From " token, a line break, a body byte
Chunks == { << "F", "r", "o", "m", " " >>, << "\n" >>, << "x" >> }

RECURSIVE Flatten(_)
Flatten(pieces) ==
    IF pieces = << >> THEN << >> ELSE Head(pieces) \o Flatten(Tail(pieces))

\* the pattern matches at byte offset o of f
MatchAt(f, o) ==
    /\ o + Len(Pattern) <= Len(f)
    /\ SubSeq(f, o + 1, o + Len(Pattern)) = Pattern

MatchOffsets(f, from) == { o \in from..(Len(f) - Len(Pattern)) : MatchAt(f, o) }

\* m.start() of the next match finditer yields, scanning from offset from
NextMatchStart(f, from) ==
    CHOOSE o \in MatchOffsets(f, from) : \A q \in MatchOffsets(f, from) : o <= q

\* pos = m.start() + 1
MatchPos(start) == start + 1

\* stops.append(len(mm))
NoFinalStop(stopList, length) == stopList
FinalStops(stopList, length) == Append(stopList, length)

\* dict(enumerate(zip(starts, stops)))
Zip(startList, stopList) ==
    [i \in 1..Min(Len(startList), Len(stopList)) |-> << startList[i], stopList[i] >>]

InitToc ==
    /\ \E k \in 0..MaxChunks : \E pieces \in [1..k -> Chunks] : file = Flatten(pieces)
    /\ starts = << >>
    /\ stops = << >>
    /\ last = 0
    /\ scanFrom = 0
    /\ bar = 0
    /\ toc = << >>
    /\ next_key = 0
    /\ file_length = 0
    /\ tpc = "open"
    /\ SearchIdle /\ BatchIdle /\ BodyIdle

\* mbox_sync.py:20-24: the file is mapped and the lists are initialised
MapFile ==
    /\ tpc = "open"
    /\ Len(file) > 0
    /\ starts' = << 0 >>
    /\ stops' = << >>
    /\ last' = 0
    /\ tpc' = "scan"
    /\ UNCHANGED << file, scanFrom, bar, toc, next_key, file_length >>
    /\ UNCHANGED << searchVars, batchVars, bodyVars >>

\* mbox_sync.py:22: mmap.mmap(fileno, 0) of an empty file raises ValueError
MapEmptyFile ==
    /\ tpc = "open"
    /\ Len(file) = 0
    /\ tpc' = "raised"
    /\ UNCHANGED << file, starts, stops, last, scanFrom, bar, toc, next_key,
                    file_length >>
    /\ UNCHANGED << searchVars, batchVars, bodyVars >>

\* mbox_sync.py:25-30, one iteration of the loop over the matches
ScanMatch ==
    /\ tpc = "scan"
    /\ MatchOffsets(file, scanFrom) # {}
    /\ LET start == NextMatchStart(file, scanFrom)
           pos == MatchPos(start) IN
          /\ stops' = Append(stops, pos)
          /\ starts' = Append(starts, pos)
          /\ bar' = bar + (pos - last)
          /\ last' = pos
          /\ scanFrom' = start + Len(Pattern)
    /\ UNCHANGED << file, toc, next_key, file_length, tpc >>
    /\ UNCHANGED << searchVars, batchVars, bodyVars >>

\* mbox_sync.py:31-37, after the last match
ScanEnd ==
    /\ tpc = "scan"
    /\ MatchOffsets(file, scanFrom) = {}
    /\ stops' = FinalStops(stops, Len(file))
    /\ bar' = bar + (Len(file) - last)
    /\ toc' = Zip(starts, stops')
    /\ next_key' = Len(toc')
    /\ file_length' = Len(file)
    /\ tpc' = "done"
    /\ UNCHANGED << file, starts, last, scanFrom >>
    /\ UNCHANGED << searchVars, batchVars, bodyVars >>

NextToc ==
    \/ MapFile
    \/ MapEmptyFile
    \/ ScanMatch
    \/ ScanEnd

SpecToc == InitToc /\ [][NextToc]_vars

-----------------------------------------------------------------------------
(* Claims about FastMbox._generate_toc *)

FromToken == << "F", "r", "o", "m", " " >>

\* a message starts at offset o: a "From " at the start of a line
MessageStartsAt(f, o) ==
    /\ o + Len(FromToken) <= Len(f)
    /\ SubSeq(f, o + 1, o + Len(FromToken)) = FromToken
    /\ o = 0 \/ f[o] = "\n"

\* the number of messages of a file
NumMessages(f) == Cardinality({ o \in 0..Len(f) : MessageStartsAt(f, o) })

\* a file of properly separated messages: it opens with a message and every
\* "From " at the start of a line opens another one
ProperlySeparated(f) == MessageStartsAt(f, 0)

Contiguous(table, length) ==
    /\ table[1][1] = 0
    /\ \A i \in 1..(Len(table) - 1) :
          /\ table[i][2] = table[i + 1][1]
          /\ table[i][1] < table[i + 1][1]
    /\ \A i \in 1..Len(table) : table[i][1] < table[i][2]
    /\ table[Len(table)][2] = length

\* C7: on a file of N >= 1 properly separated messages the scan produces
\* exactly N ranges, ordered by start, the first starting at 0, each ending
\* where the next starts, the last ending at the file length.
C7_RangesCoverFile ==
    (tpc = "done" /\ ProperlySeparated(file)) =>
        /\ Len(toc) = NumMessages(file)
        /\ Contiguous(toc, Len(file))
        /\ next_key = NumMessages(file)
        /\ file_length = Len(file)

\* a scanned file of two messages or more
C7_Witness ==
    /\ tpc = "done"
    /\ ProperlySeparated(file)
    /\ NumMessages(file) >= 2
    /\ Len(toc) >= 2

\* C8 as stated: a file without messages gets an empty table and no error,
\* and the trailing bytes of a file always get a boundary.
C8_AsStated ==
    (tpc \in {"done", "raised"}) =>
        /\ NumMessages(file) = 0 => (tpc = "done" /\ toc = << >>)
        /\ Len(file) > 0 =>
              (tpc = "done" /\ toc # << >> /\ toc[Len(toc)][2] = Len(file))

-----------------------------------------------------------------------------
(* MboxSyncer._get_body *)

\* the content types of the parts of a message
ContentTypes ==
    { "multipart/alternative", "message/rfc822", "text/plain", "text/html",
      "image/png" }

\* a part: its content type and whether it carries a filename
Parts == [ctype : ContentTypes, filename : BOOLEAN]

\* part.get_content_maintype() == "multipart"
IsMultipartType(part) == part.ctype = "multipart/alternative"

\* part.get_payload(decode=True) is None: the part holds parts or a message
PayloadIsNone(part) == part.ctype \in {"multipart/alternative", "message/rfc822"}

\* the decoded payload of the part at position i of the walk, as tokens
Text(i, part) ==
    IF part.ctype = "text/html"
    THEN << << "tag", i >>, << "word", i >>, << "script", i >>, << "space", i >>,
            << "space", i >>, << "word", i >>, << "style", i >>, << "tag", i >> >>
    ELSE << << "word", i >>, << "space", i >>, << "word", i >> >>

\* re.sub of <script.*?</script> and <style.*?</style> by ""
RECURSIVE DropBlocks(_)
DropBlocks(t) ==
    IF t = << >> THEN << >>
    ELSE IF Head(t)[1] \in {"script", "style"} THEN DropBlocks(Tail(t))
    ELSE << Head(t) >> \o DropBlocks(Tail(t))

\* re.sub of <[^>]+> by " "
TagsToSpaces(t) ==
    [i \in 1..Len(t) |-> IF t[i][1] = "tag" THEN << "space", t[i][2] >> ELSE t[i]]

\* re.sub of \s+ by " "
RECURSIVE CollapseSpaces(_)
CollapseSpaces(t) ==
    IF Len(t) <= 1 THEN t
    ELSE IF t[1][1] = "space" /\ t[2][1] = "space" THEN CollapseSpaces(Tail(t))
    ELSE << Head(t) >> \o CollapseSpaces(Tail(t))

\* str.strip()
RECURSIVE Strip(_)
Strip(t) ==
    IF t = << >> THEN t
    ELSE IF t[1][1] = "space" THEN Strip(Tail(t))
    ELSE IF t[Len(t)][1] = "space" THEN Strip(SubSeq(t, 1, Len(t) - 1))
    ELSE t

\* mbox_sync.py:48-54
StripHtml(t) == Strip(CollapseSpaces(TagsToSpaces(DropBlocks(t))))

Newline == << "newline", 0 >>

\* "\n".join(parts)
RECURSIVE Join(_)
Join(list) ==
    IF list = << >> THEN << >>
    ELSE IF Len(list) = 1 THEN list[1]
    ELSE list[1] \o << Newline >> \o Join(Tail(list))

\* msg.is_multipart()
IsMultipart == IsMultipartType(walk[1])

\* a multipart message, whose walk() yields the message itself and then its
\* parts, or a message that is a single text part
InitBody ==
    /\ \/ \E k \in 0..MaxParts : \E leaves \in [1..k -> Parts] :
             walk = << [ctype |-> "multipart/alternative", filename |-> FALSE] >>
                        \o leaves
       \/ \E ctype \in {"text/plain", "text/html"} :
             walk = << [ctype |-> ctype, filename |-> FALSE] >>
    /\ walkAt = 0
    /\ textParts = << >>
    /\ body = << >>
    /\ gpc = "start"
    /\ SearchIdle /\ BatchIdle /\ TocIdle

\* mbox_sync.py:74-75
EnterWalk ==
    /\ gpc = "start"
    /\ IsMultipart
    /\ gpc' = "walk"
    /\ UNCHANGED << walk, walkAt, textParts, body >>
    /\ UNCHANGED << searchVars, batchVars, tocVars >>

\* mbox_sync.py:95-101: the sole payload of a message that is not multipart
ReturnPayload ==
    /\ gpc = "start"
    /\ ~IsMultipart
    /\ body' = Text(1, walk[1])
    /\ gpc' = "done"
    /\ UNCHANGED << walk, walkAt, textParts >>
    /\ UNCHANGED << searchVars, batchVars, tocVars >>

\* mbox_sync.py:76-84: a part the loop passes over
SkipPart ==
    /\ gpc = "walk"
    /\ walkAt < Len(walk)
    /\ LET part == walk[walkAt + 1] IN
          IsMultipartType(part) \/ part.filename \/ PayloadIsNone(part)
    /\ walkAt' = walkAt + 1
    /\ UNCHANGED << walk, textParts, body, gpc >>
    /\ UNCHANGED << searchVars, batchVars, tocVars >>

\* mbox_sync.py:81-93: a part whose payload is decoded
VisitPart ==
    /\ gpc = "walk"
    /\ walkAt < Len(walk)
    /\ LET part == walk[walkAt + 1]
           text == Text(walkAt + 1, part) IN
          /\ ~(IsMultipartType(part) \/ part.filename \/ PayloadIsNone(part))
          /\ textParts' =
                IF part.ctype = "text/plain" THEN Append(textParts, text)
                ELSE IF part.ctype = "text/html" /\ textParts = << >>
                     THEN Append(textParts, StripHtml(text))
                     ELSE textParts
    /\ walkAt' = walkAt + 1
    /\ UNCHANGED << walk, body, gpc >>
    /\ UNCHANGED << searchVars, batchVars, tocVars >>

\* mbox_sync.py:94
ReturnBody ==
    /\ gpc = "walk"
    /\ walkAt = Len(walk)
    /\ body' = Join(textParts)
    /\ gpc' = "done"
    /\ UNCHANGED << walk, walkAt, textParts >>
    /\ UNCHANGED << searchVars, batchVars, tocVars >>

NextBody ==
    \/ EnterWalk
    \/ ReturnPayload
    \/ SkipPart
    \/ VisitPart
    \/ ReturnBody

SpecBody == InitBody /\ [][NextBody]_vars

-----------------------------------------------------------------------------
(* Claims about MboxSyncer._get_body *)

\* the positions of the non-attachment leaf parts of a content type
LeavesOf(ctype) ==
    { i \in 1..Len(walk) : walk[i].ctype = ctype /\ ~walk[i].filename }

RECURSIVE TextsOf(_, _)
TextsOf(i, ctype) ==
    IF i > Len(walk) THEN << >>
    ELSE (IF i \in LeavesOf(ctype) THEN << Text(i, walk[i]) >> ELSE << >>)
         \o TextsOf(i + 1, ctype)

\* C9 as stated: when the message has both a text/plain and a text/html
\* non-attachment leaf, in any order, the body is the plain text and holds
\* nothing that comes from an HTML part.
C9_AsStated ==
    (gpc = "done" /\ IsMultipart /\ LeavesOf("text/plain") # {}
                  /\ LeavesOf("text/html") # {}) =>
        /\ body = Join(TextsOf(1, "text/plain"))
        /\ \A j \in 1..Len(body) : body[j][2] \notin LeavesOf("text/html")

=============================================================================
